---- MODULE Spec2Model ----
(***************************************************************************)
(* A model of rust-nictagadm (src/main.rs): one run of the program on one  *)
(* argument and one file system.  Text is a sequence of one-character      *)
(* strings, so that split, splitn, trim, starts_with and ends_with are     *)
(* computed on characters the way the standard library computes them.      *)
(***************************************************************************)
EXTENDS Integers, Sequences, FiniteSets

VARIABLES
    fname,        \* args[0] after the program name is dropped (main.rs:124)
    openable,     \* file system: does File::open(fname) succeed
    contents,     \* file system: the lines BufReader::lines() yields
    pc,           \* position of main
    file,         \* result of File::open: "unopened", "Ok", "Err"
    calls,        \* the parsers main has called, in order
    line_number,  \* the running parser's line_number
    nic_tags,     \* the running parser's HashMap<String, NicTag>
    iter,         \* keys the for loop of main has not yet yielded
    stdout,       \* lines written by println!
    stderr,       \* lines written by eprintln! and by panics
    exit_code     \* process exit status, -1 while running

vars == << fname, openable, contents, pc, file, calls, line_number,
           nic_tags, iter, stdout, stderr, exit_code >>

-----------------------------------------------------------------------------
(* Bounds and the input alphabet *)

MaxLines == 2

EQ == "="
HASH == "#"
SP == " "
TAB == "\t"

\* "_nic", main.rs:101
NIC == << "_", "n", "i", "c" >>

Sigma == { EQ, HASH, SP }

\* every text of at most two characters over Sigma
Short == { << >> } \cup { << a >> : a \in Sigma }
                   \cup { << a, b >> : a \in Sigma, b \in Sigma }

Prefixes == { << >>, << SP >>, << HASH >>, << SP, HASH >> }

\* what follows "_nic" in a line: nothing, white space, or '=' and a value
Suffixes == { << >>, << SP >>, << SP, EQ >> }
                \cup { << EQ >> \o v : v \in { << >> } \cup { << a >> : a \in Sigma } }

\* the lines a file is made of: short texts, and texts around "_nic"
Lines == Short \cup { p \o NIC \o s : p \in Prefixes, s \in Suffixes }

Files == UNION { [1..n -> Lines] : n \in 0..MaxLines }

KnownNames == { "tags.txt", "usb-datadyne.txt", "usb-portal.txt" }

FileNames == KnownNames \cup { "other.txt", "TAGS.TXT", "./tags.txt" }

-----------------------------------------------------------------------------
(* The standard-library functions the program calls *)

\* char::is_whitespace on the characters of the model
is_whitespace(c) == c \in { SP, TAB }

RECURSIVE trim_start(_)
trim_start(s) ==
    IF s = << >> THEN s
    ELSE IF is_whitespace(Head(s)) THEN trim_start(Tail(s)) ELSE s

RECURSIVE trim_end(_)
trim_end(s) ==
    IF s = << >> THEN s
    ELSE IF is_whitespace(s[Len(s)]) THEN trim_end(SubSeq(s, 1, Len(s) - 1))
    ELSE s

\* str::trim
trim(s) == trim_end(trim_start(s))

\* str::is_empty
is_empty(s) == Len(s) = 0

\* str::starts_with
starts_with(s, p) == Len(s) >= Len(p) /\ SubSeq(s, 1, Len(p)) = p

\* a test of the front of the text where the end is meant
ends_with_front(s, p) == starts_with(s, p)

\* str::ends_with
ends_with(s, p) ==
    Len(s) >= Len(p) /\ SubSeq(s, Len(s) - Len(p) + 1, Len(s)) = p

\* index of the first c in s, 0 when there is none
find(s, c) ==
    IF \E i \in 1..Len(s) : s[i] = c
    THEN CHOOSE i \in 1..Len(s) : s[i] = c /\ \A j \in 1..(i - 1) : s[j] # c
    ELSE 0

\* a split that stops after the first separator
split_once(s, c) ==
    LET i == find(s, c)
    IN  IF i = 0 THEN << s >>
        ELSE << SubSeq(s, 1, i - 1), SubSeq(s, i + 1, Len(s)) >>

\* str::split(c).collect(): every field between separators
RECURSIVE split(_, _)
split(s, c) ==
    LET i == find(s, c)
    IN  IF i = 0 THEN << s >>
        ELSE << SubSeq(s, 1, i - 1) >> \o split(SubSeq(s, i + 1, Len(s)), c)

\* str::split in the place of splitn: every separator cuts
splitn_all(n, s, c) == split(s, c)

\* str::splitn(n, c).collect(): at most n fields, the last one unsplit
RECURSIVE splitn(_, _, _)
splitn(n, s, c) ==
    LET i == find(s, c)
    IN  IF n = 0 THEN << >>
        ELSE IF n = 1 \/ i = 0 THEN << s >>
        ELSE << SubSeq(s, 1, i - 1) >>
                 \o splitn(n - 1, SubSeq(s, i + 1, Len(s)), c)

\* Option<String>
None == << >>
Some(s) == << s >>

\* entry(k).or_insert(v) in the place of insert: the stored value stays
insert_keep(m, k, v) ==
    [ x \in (DOMAIN m) \cup { k } |-> IF x \in DOMAIN m THEN m[x] ELSE v ]

\* HashMap::insert: the new value replaces the one stored under the key
insert(m, k, v) ==
    [ x \in (DOMAIN m) \cup { k } |-> IF x = k THEN v ELSE m[x] ]

\* HashMap::new
EmptyMap == [ x \in { } |-> << >> ]

-----------------------------------------------------------------------------
(* The program's own definitions *)

normal == << "n", "o", "r", "m", "a", "l" >>

NicTag(name, mac_address) ==
    [ name |-> name, mac_address |-> Some(mac_address),
      link |-> None, typ |-> Some(normal) ]

format_optional_string(s) == IF s = None THEN << "-" >> ELSE s[1]

\* a line of standard error
Diag(kind, f, n, line) ==
    [ kind |-> kind, fname |-> f, line_number |-> n, line |-> line ]

invalid_line(f, n, line) == Diag("invalid_line", f, n, line)

Hint == Diag("try deleting /tmp/.nic-tags and running again", "", 0, << >>)

Panic(msg) == Diag(msg, "", 0, << >>)

PanicExit == 101

Header ==
    << "N", "A", "M", "E", TAB,
       "M", "A", "C", "A", "D", "D", "R", "E", "S", "S", TAB,
       "L", "I", "N", "K", TAB,
       "T", "Y", "P", "E" >>

\* the data row main prints for one value of the map
Row(value) ==
    value.name \o << TAB >>
        \o format_optional_string(value.mac_address) \o << TAB >>
        \o format_optional_string(value.link) \o << TAB >>
        \o format_optional_string(value.typ)

\* the body of the loop of parse_tags_file on one line
tags_line(line) ==
    LET spl == split(line, EQ)
    IN  IF Len(spl) # 2 THEN [ kind |-> "invalid" ]
        ELSE [ kind |-> "insert", name |-> spl[1], mac_address |-> spl[2] ]

\* the loop body without the test for blank lines
usb_line_no_blank(line) ==
    IF starts_with(line, << HASH >>)
    THEN [ kind |-> "continue" ]
    ELSE LET spl == splitn(2, line, EQ)
         IN  IF Len(spl) # 2 THEN [ kind |-> "invalid" ]
             ELSE IF ~ ends_with(spl[1], NIC) THEN [ kind |-> "continue" ]
             ELSE [ kind |-> "insert", name |-> spl[1],
                    mac_address |-> spl[2] ]

\* the loop body with the suffix filter ahead of the field count
usb_line_filter_first(line) ==
    IF is_empty(trim(line)) \/ starts_with(line, << HASH >>)
    THEN [ kind |-> "continue" ]
    ELSE LET spl == splitn(2, line, EQ)
         IN  IF ~ ends_with(spl[1], NIC) THEN [ kind |-> "continue" ]
             ELSE IF Len(spl) # 2 THEN [ kind |-> "invalid" ]
             ELSE [ kind |-> "insert", name |-> spl[1],
                    mac_address |-> spl[2] ]

\* the body of the loop of parse_usb_file on one line
usb_line(line) ==
    IF is_empty(trim(line)) \/ starts_with(line, << HASH >>)
    THEN [ kind |-> "continue" ]
    ELSE LET spl == splitn(2, line, EQ)
         IN  IF Len(spl) # 2 THEN [ kind |-> "invalid" ]
             ELSE IF ~ ends_with(spl[1], NIC) THEN [ kind |-> "continue" ]
             ELSE [ kind |-> "insert", name |-> spl[1],
                    mac_address |-> spl[2] ]

\* a match that ignores the case of the file name
selector_nocase(f) ==
    IF f \in { "tags.txt", "TAGS.TXT" } THEN "parse_tags_file"
    ELSE IF f = "usb-datadyne.txt" THEN "parse_usb_file"
    ELSE IF f = "usb-portal.txt" THEN "parse_usb_file"
    ELSE "panic"

\* the match of main on the file name
selector(f) ==
    IF f = "tags.txt" THEN "parse_tags_file"
    ELSE IF f = "usb-datadyne.txt" THEN "parse_usb_file"
    ELSE IF f = "usb-portal.txt" THEN "parse_usb_file"
    ELSE "panic"

-----------------------------------------------------------------------------
(* The run *)

Init ==
    /\ fname \in FileNames
    /\ openable \in BOOLEAN
    /\ contents \in IF openable /\ fname \in KnownNames THEN Files
                    ELSE { << >> }
    /\ pc = "main"
    /\ file = "unopened"
    /\ calls = << >>
    /\ line_number = 0
    /\ nic_tags = EmptyMap
    /\ iter = { }
    /\ stdout = << >>
    /\ stderr = << >>
    /\ exit_code = -1

\* a panic: the message on standard error, exit status 101
Die(msg) ==
    /\ pc' = "exit"
    /\ stderr' = Append(stderr, Panic(msg))
    /\ exit_code' = PanicExit

\* File::open(fname) with its error dropped
OpenUnchecked ==
    /\ pc = "main"
    /\ file' = IF openable THEN "Ok" ELSE "Err"
    /\ pc' = "match"
    /\ UNCHANGED << fname, openable, contents, calls, line_number, nic_tags,
                    iter, stdout, stderr, exit_code >>

\* File::open(fname).expect("Failed to open file")
Open ==
    /\ pc = "main"
    /\ IF openable
       THEN /\ file' = "Ok"
            /\ pc' = "match"
            /\ UNCHANGED << stderr, exit_code >>
       ELSE /\ file' = "Err"
            /\ Die("Failed to open file")
    /\ UNCHANGED << fname, openable, contents, calls, line_number, nic_tags,
                    iter, stdout >>

\* the match with the header printed ahead of the parse
MatchHeaderFirst ==
    /\ pc = "match"
    /\ stdout' = Append(stdout, Header)
    /\ IF selector(fname) = "panic"
       THEN /\ Die("unknown file")
            /\ UNCHANGED << calls, line_number, nic_tags >>
       ELSE /\ pc' = selector(fname)
            /\ calls' = Append(calls, selector(fname))
            /\ line_number' = 0
            /\ nic_tags' = EmptyMap
            /\ UNCHANGED << stderr, exit_code >>
    /\ UNCHANGED << fname, openable, contents, file, iter >>

\* match fname.as_str() { ... }: call the parser, or panic
Match ==
    /\ pc = "match"
    /\ IF selector(fname) = "panic"
       THEN /\ Die("unknown file")
            /\ UNCHANGED << calls, line_number, nic_tags >>
       ELSE /\ pc' = selector(fname)
            /\ calls' = Append(calls, selector(fname))
            /\ line_number' = 0
            /\ nic_tags' = EmptyMap
            /\ UNCHANGED << stderr, exit_code >>
    /\ UNCHANGED << fname, openable, contents, file, iter, stdout >>

\* line.expect("failed to read line"): the read of the next line fails
ReadFail ==
    /\ pc \in { "parse_tags_file", "parse_usb_file" }
    /\ line_number < Len(contents)
    /\ Die("failed to read line")
    /\ UNCHANGED << fname, openable, contents, file, calls, line_number,
                    nic_tags, iter, stdout >>

\* one iteration of the loop of parse_tags_file
parse_tags_file ==
    /\ pc = "parse_tags_file"
    /\ line_number < Len(contents)
    /\ line_number' = line_number + 1
    /\ LET line == contents[line_number']
           r == tags_line(line)
       IN  IF r.kind = "invalid"
           THEN /\ stderr' = stderr \o << invalid_line(fname, line_number', line),
                                         Hint >>
                /\ exit_code' = 1
                /\ pc' = "exit"
                /\ UNCHANGED nic_tags
           ELSE /\ nic_tags' = insert(nic_tags, r.name,
                                      NicTag(r.name, r.mac_address))
                /\ UNCHANGED << pc, stderr, exit_code >>
    /\ UNCHANGED << fname, openable, contents, file, calls, iter, stdout >>

\* one iteration of the loop of parse_usb_file
parse_usb_file ==
    /\ pc = "parse_usb_file"
    /\ line_number < Len(contents)
    /\ line_number' = line_number + 1
    /\ LET line == contents[line_number']
           r == usb_line(line)
       IN  CASE r.kind = "invalid" ->
                /\ stderr' = Append(stderr,
                                    invalid_line(fname, line_number', line))
                /\ exit_code' = 1
                /\ pc' = "exit"
                /\ UNCHANGED nic_tags
             [] r.kind = "continue" ->
                UNCHANGED << pc, stderr, exit_code, nic_tags >>
             [] r.kind = "insert" ->
                /\ nic_tags' = insert(nic_tags, r.name,
                                      NicTag(r.name, r.mac_address))
                /\ UNCHANGED << pc, stderr, exit_code >>
    /\ UNCHANGED << fname, openable, contents, file, calls, iter, stdout >>

\* the end of the file: the parser returns nic_tags to main
Return ==
    /\ pc \in { "parse_tags_file", "parse_usb_file" }
    /\ line_number = Len(contents)
    /\ pc' = "print_header"
    /\ UNCHANGED << fname, openable, contents, file, calls, line_number,
                    nic_tags, iter, stdout, stderr, exit_code >>

\* the header printed only when there is a row to print
PrintHeaderIfAny ==
    /\ pc = "print_header"
    /\ stdout' = IF DOMAIN nic_tags = { } THEN stdout
                 ELSE Append(stdout, Header)
    /\ iter' = DOMAIN nic_tags
    /\ pc' = "print_rows"
    /\ UNCHANGED << fname, openable, contents, file, calls, line_number,
                    nic_tags, stderr, exit_code >>

\* println!("NAME\tMACADDRESS\tLINK\tTYPE") and the start of the for loop
PrintHeader ==
    /\ pc = "print_header"
    /\ stdout' = Append(stdout, Header)
    /\ iter' = DOMAIN nic_tags
    /\ pc' = "print_rows"
    /\ UNCHANGED << fname, openable, contents, file, calls, line_number,
                    nic_tags, stderr, exit_code >>

\* one iteration of the for loop: the map yields its entries in any order
PrintRow ==
    /\ pc = "print_rows"
    /\ \E k \in iter :
          /\ stdout' = Append(stdout, Row(nic_tags[k]))
          /\ iter' = iter \ { k }
    /\ UNCHANGED << fname, openable, contents, pc, file, calls, line_number,
                    nic_tags, stderr, exit_code >>

\* main returns
Finish ==
    /\ pc = "print_rows"
    /\ iter = { }
    /\ pc' = "exit"
    /\ exit_code' = 0
    /\ UNCHANGED << fname, openable, contents, file, calls, line_number,
                    nic_tags, iter, stdout, stderr >>

Next ==
    \/ Open
    \/ Match
    \/ ReadFail
    \/ parse_tags_file
    \/ parse_usb_file
    \/ Return
    \/ PrintHeader
    \/ PrintRow
    \/ Finish

Spec == Init /\ [][Next]_vars

-----------------------------------------------------------------------------
(* Vocabulary of the properties: facts about a line stated on its          *)
(* characters, without the functions the parsers are built from            *)

Chars(s) == { s[i] : i \in 1..Len(s) }

HasEq(s) == EQ \in Chars(s)

CountEq(s) == Cardinality({ i \in 1..Len(s) : s[i] = EQ })

\* the line is k, then '=', then v, and k holds no '='
Cut(s, k, v) == s = k \o << EQ >> \o v /\ ~ HasEq(k)

\* the position of the first '=' of a line that holds one
FirstEq(s) == CHOOSE i \in 1..Len(s) : s[i] = EQ /\ \A j \in 1..(i - 1) : s[j] # EQ

\* the text before the first '=' and the text after it
KeyOf(s) == SubSeq(s, 1, FirstEq(s) - 1)
ValOf(s) == SubSeq(s, FirstEq(s) + 1, Len(s))

Blank(s) == Chars(s) \subseteq { SP, TAB }

FirstIsHash(s) == Len(s) > 0 /\ s[1] = HASH

\* '#' is the first character that is not white space
HashAfterTrim(s) ==
    \E i \in 1..Len(s) : s[i] = HASH /\ \A j \in 1..(i - 1) : s[j] \in { SP, TAB }

EndsInNic(k) ==
    /\ Len(k) >= 4
    /\ k[Len(k) - 3] = "_" /\ k[Len(k) - 2] = "n"
    /\ k[Len(k) - 1] = "i" /\ k[Len(k)] = "c"

Strict == calls = << "parse_tags_file" >>
Lenient == calls = << "parse_usb_file" >>

FatalExit == pc = "exit" /\ exit_code # 0

\* the parser has returned its map to main
Parsed == pc \in { "print_header", "print_rows" } \/ (pc = "exit" /\ exit_code = 0)

\* the lines whose entry the running parser keeps
Kept(i) ==
    IF Strict THEN CountEq(contents[i]) = 1
    ELSE /\ ~ Blank(contents[i])
         /\ ~ FirstIsHash(contents[i])
         /\ HasEq(contents[i])
         /\ EndsInNic(KeyOf(contents[i]))

KeptKeys == { KeyOf(contents[i]) : i \in { j \in 1..Len(contents) : Kept(j) } }

LastOf(k) ==
    CHOOSE i \in 1..Len(contents) :
        /\ Kept(i) /\ KeyOf(contents[i]) = k
        /\ \A j \in (i + 1)..Len(contents) :
              ~ (Kept(j) /\ KeyOf(contents[j]) = k)

\* the name column of a data row
NameOfRow(row) ==
    SubSeq(row, 1, (CHOOSE i \in 1..Len(row) :
                       row[i] = TAB /\ \A j \in 1..(i - 1) : row[j] # TAB) - 1)

DataRows == { i \in 2..Len(stdout) : TRUE }

-----------------------------------------------------------------------------
(* The properties *)

\* C1: a run that ends in a fatal error (a malformed line in either
\* parser, an unknown file name, a failure to open or to read) has written
\* nothing to standard output, neither the header nor a data row.
C1_NoPartialOutput == FatalExit => stdout = << >>

\* a malformed second line after a first line that was stored
C1_Witness ==
    /\ FatalExit /\ exit_code = 1 /\ line_number = 2
    /\ DOMAIN nic_tags # { } /\ stdout = << >>

\* C2 as stated: with a file name outside the table the driver never calls
\* File::open, and the run ends with the unknown-file diagnostic whether or
\* not the file can be opened.
C2_AbortBeforeOpen ==
    fname \notin KnownNames =>
        /\ file = "unopened"
        /\ pc = "exit" => stderr = << Panic("unknown file") >>

\* C2 as amended: with a file name outside the table the driver opens the
\* file first; the run ends with the open failure when the open fails and
\* with the unknown-file panic only when the open succeeded; either way no
\* parser is called, nothing is printed and the exit status is not zero.
C2_OpenThenAbort ==
    fname \notin KnownNames =>
        /\ calls = << >> /\ stdout = << >>
        /\ pc # "main" => file = (IF openable THEN "Ok" ELSE "Err")
        /\ pc = "exit" =>
              /\ exit_code # 0
              /\ stderr = << Panic(IF file = "Ok" THEN "unknown file"
                                   ELSE "Failed to open file") >>

\* an unknown name whose file cannot be opened, and one whose file can
C2_Witness ==
    /\ fname = "other.txt" /\ pc = "exit" /\ file = "Err"
    /\ stderr = << Panic("Failed to open file") >>

\* C3: in a strict input, a line with no '=' or with two or more (an empty
\* line too) ends the run at the first such line with exit status 1, the
\* invalid-line diagnostic and the hint; no line after it is read and
\* nothing is printed, however many well-formed lines surround it.
C3_StrictRejection ==
    Strict =>
        \A i \in 1..Len(contents) :
            CountEq(contents[i]) # 1 =>
                /\ line_number <= i
                /\ stdout = << >>
                /\ pc = "exit" => exit_code # 0
                /\ line_number = i =>
                      /\ pc = "exit" /\ exit_code = 1
                      /\ stderr = << invalid_line(fname, i, contents[i]), Hint >>

\* a line with two '=' after a well-formed line
C3_Witness ==
    /\ Strict /\ pc = "exit" /\ line_number = 2
    /\ CountEq(contents[2]) >= 2 /\ CountEq(contents[1]) = 1

\* C4 as stated: the lenient parser skips every line that, once trimmed,
\* is empty or starts with '#': reading it changes neither the map nor
\* standard error and does not end the run.
C4_TrimmedCommentSkipped ==
    [][ ( /\ pc = "parse_usb_file"
          /\ line_number' = line_number + 1
          /\ (Blank(contents[line_number']) \/ HashAfterTrim(contents[line_number'])) )
        => (nic_tags' = nic_tags /\ stderr' = stderr /\ pc' = pc) ]_vars

\* C4 as amended: the lenient parser skips every line that is empty once
\* trimmed or whose first character, untrimmed, is '#'; a line with white
\* space before its '#' is no comment: it is parsed like any other line,
\* and without a '=' it is fatal.
C4_CommentBlank ==
    [][ ( /\ pc = "parse_usb_file"
          /\ line_number' = line_number + 1 )
        => /\ (Blank(contents[line_number']) \/ FirstIsHash(contents[line_number']))
                => (nic_tags' = nic_tags /\ stderr' = stderr /\ pc' = pc)
           /\ ( /\ HashAfterTrim(contents[line_number'])
                /\ ~ FirstIsHash(contents[line_number'])
                /\ ~ HasEq(contents[line_number']) )
                => (pc' = "exit" /\ exit_code' = 1 /\ nic_tags' = nic_tags) ]_vars

\* a comment that looks like a tag and a line of white space, both skipped
C4_Witness ==
    /\ Lenient /\ Parsed /\ Len(contents) = 2 /\ nic_tags = EmptyMap
    /\ FirstIsHash(contents[1]) /\ HasEq(contents[1])
    /\ Blank(contents[2]) /\ contents[2] # << >>

\* C5: when either parser has processed the whole file, the map holds one
\* record for each name some kept line carries and for no other name; the
\* record's mac_address is the value of the last kept line with that name,
\* and no diagnostic was written.
C5_LastWins ==
    ((Strict \/ Lenient) /\ Parsed) =>
        /\ DOMAIN nic_tags = KeptKeys
        /\ \A k \in DOMAIN nic_tags :
              nic_tags[k] = [ name |-> k,
                              mac_address |-> << ValOf(contents[LastOf(k)]) >>,
                              link |-> << >>,
                              typ |-> << normal >> ]
        /\ stderr = << >>

\* two kept lines with one name and two values
C5_Witness ==
    /\ (Strict \/ Lenient) /\ Parsed /\ Len(contents) = 2
    /\ Kept(1) /\ Kept(2)
    /\ KeyOf(contents[1]) = KeyOf(contents[2])
    /\ ValOf(contents[1]) # ValOf(contents[2])

\* C6: a successful run prints the header and then one data row for each
\* key the parser kept: as many rows as kept keys, no name twice, no kept
\* key missing, and only the header when no key was kept.
C6_RowCount ==
    (pc = "exit" /\ exit_code = 0) =>
        /\ Len(stdout) >= 1 /\ stdout[1] = Header
        /\ Len(stdout) = 1 + Cardinality(KeptKeys)
        /\ { NameOfRow(stdout[i]) : i \in DataRows } = KeptKeys
        /\ \A i \in DataRows : \A j \in DataRows :
              NameOfRow(stdout[i]) = NameOfRow(stdout[j]) => i = j

\* two rows from two keys
C6_Witness ==
    /\ pc = "exit" /\ exit_code = 0 /\ Len(stdout) = 3
    /\ Cardinality(KeptKeys) = 2

\* C7: in the lenient parser every record comes from a line cut at its
\* first '=': the name is the text before it and the mac_address all the
\* text after it, further '=' and white space included; no line that holds
\* a '=' is reported invalid.
C7_FirstEquals ==
    Lenient =>
        /\ \A k \in DOMAIN nic_tags :
              \E i \in 1..line_number :
                 Cut(contents[i], k, nic_tags[k].mac_address[1])
        /\ \A d \in 1..Len(stderr) :
              stderr[d].kind = "invalid_line" => ~ HasEq(stderr[d].line)

\* a value that holds a '=' and a value that holds white space
C7_Witness ==
    /\ Lenient /\ Parsed
    /\ \E k \in DOMAIN nic_tags : HasEq(nic_tags[k].mac_address[1])
    /\ \E k \in DOMAIN nic_tags : SP \in Chars(nic_tags[k].mac_address[1])

\* C8: in the lenient parser every name of the map, and so the name of
\* every data row, ends in _nic and is the whole key; a line whose key does
\* not end in _nic (white space after _nic included) adds no name and does
\* not end the run.
C8_SuffixFilter ==
    Lenient =>
        /\ \A k \in DOMAIN nic_tags : EndsInNic(k) /\ nic_tags[k].name = k
        /\ \A i \in DataRows : EndsInNic(NameOfRow(stdout[i]))
        /\ \A i \in 1..line_number :
              (HasEq(contents[i]) /\ ~ EndsInNic(KeyOf(contents[i]))) =>
                  ~ (pc = "exit" /\ exit_code = 1 /\ line_number = i)

\* a key with white space after _nic is passed over, another key is printed
C8_Witness ==
    /\ Lenient /\ pc = "exit" /\ exit_code = 0 /\ Len(stdout) = 2
    /\ \E i \in 1..Len(contents) :
          /\ HasEq(contents[i])
          /\ KeyOf(contents[i]) = NIC \o << SP >>

\* C9: in the lenient parser a line that is not blank, is no comment and
\* holds no '=' is fatal (exit status 1, the invalid-line diagnostic),
\* whether or not its text ends in _nic; so every line the parser passes
\* over without a word is blank, a comment, or holds a '='.
C9_MissingEqFirst ==
    Lenient =>
        \A i \in 1..line_number :
            ( /\ ~ Blank(contents[i])
              /\ ~ FirstIsHash(contents[i])
              /\ ~ HasEq(contents[i]) ) =>
                /\ line_number = i
                /\ pc = "exit" /\ exit_code = 1
                /\ stderr = << invalid_line(fname, i, contents[i]) >>

\* a fatal line without '=' whose text does not end in _nic
C9_Witness ==
    /\ Lenient /\ pc = "exit" /\ exit_code = 1 /\ line_number = 2
    /\ ~ HasEq(contents[2]) /\ ~ EndsInNic(contents[2])

\* C10: the parser is chosen by the whole argument, case and path
\* included: tags.txt calls the strict parser, usb-datadyne.txt and
\* usb-portal.txt the lenient one, once the file is open; any other
\* argument calls no parser and ends in a fatal exit; at most one parser is
\* called, at most once.
C10_Selection ==
    /\ Len(calls) <= 1
    /\ calls # << >> =>
          \/ fname = "tags.txt" /\ calls[1] = "parse_tags_file"
          \/ fname \in { "usb-datadyne.txt", "usb-portal.txt" }
                /\ calls[1] = "parse_usb_file"
    /\ (fname \in KnownNames /\ file = "Ok" /\ pc # "match") => Len(calls) = 1
    /\ (fname \notin KnownNames /\ pc = "exit") => (calls = << >> /\ exit_code # 0)
    /\ pc \in { "parse_tags_file", "parse_usb_file" } => calls = << pc >>

\* the name of the strict file in another case, the file being there
C10_Witness ==
    /\ fname = "TAGS.TXT" /\ file = "Ok" /\ pc = "exit" /\ calls = << >>

====
